---- MODULE Spec2Model ----
(***************************************************************************)
(* MiniGrid of news-vt/eqmarl-vis: the grid-world agent of                 *)
(* src/icab_demo.py (state read back from the render objects) and of       *)
(* src/scenes.py (state kept in player_grid_pos / player_look_angle).      *)
(*                                                                         *)
(* Conventions.  A Python tuple (row, col) is the TLA+ tuple <<row, col>>, *)
(* so Python pos[0] is pos[1] here.  Python list indices stay 0-based in   *)
(* every operator that computes one; a TLA+ sequence is read at index+1.   *)
(* Scene coordinates are <<x, y>> with x growing to the right and y        *)
(* growing downwards, in units of half a grid cell (a manim Square() has   *)
(* side 2 and the unit vectors UP/LEFT/DOWN/RIGHT have length 1).          *)
(***************************************************************************)
EXTENDS Integers, Sequences, FiniteSets, TLC

VARIABLES
    minigrid,   \* the live MiniGrid object (a record of its fields)
    raised,     \* the exception that ended the script, or "none"
    hist,       \* the last two direct move_player calls: <<newest, older>>
    pc,         \* "idle", "parsed" (a path was parsed), "playing" (a timeline is played)
    s,          \* argument of minigrid_path_str_to_list in the call being made
    path,       \* list returned by minigrid_path_str_to_list
    anims,      \* the Succession returned by animate_actions
    played,     \* number of entries of anims that have finished
    shadow,     \* minigrid_shadow as it was when animate_actions deleted it
    args,       \* the constructor's arguments, where a script records them
    script,     \* the calls the script has made so far, where it records them
    result,     \* the last query made on the object: its name, argument and value
    mover,      \* the MiniGridMovePlayer animation in progress on minigrid, if any
    twin        \* a second MiniGrid played next to minigrid, with its own timeline

vars == <<minigrid, raised, hist, pc, s, path, anims, played, shadow,
          args, script, result, mover, twin>>

(* What the calls on minigrid alone leave as it is.                        *)
extra == <<mover, twin>>

(* The three records of what the script did change nothing of the program. *)
log == <<args, script, result>>

---------------------------------------------------------------------------
(* Bounds of the model.                                                    *)
MaxRows == 2
MaxCols == 2
MaxHazards == 1
MaxActions == 3
MaxPathLen == 3

---------------------------------------------------------------------------
(* class MinigridAction(IntEnum)                                           *)
LEFT == 0
RIGHT == 1
FORWARD == 2
MinigridAction == {LEFT, RIGHT, FORWARD}

(* side of Square(), in half-cell units                                    *)
CellSide == 2

NoError == "none"

GridSizes == (1..MaxRows) \X (1..MaxCols)

InGrid(grid_size, pos) ==
    /\ pos[1] >= 0 /\ pos[1] < grid_size[1]
    /\ pos[2] >= 0 /\ pos[2] < grid_size[2]

Positions(grid_size) == (0..(grid_size[1] - 1)) \X (0..(grid_size[2] - 1))

---------------------------------------------------------------------------
(* Helpers                                                                 *)

negative_index_rollover(i, size) == IF i >= 0 THEN i ELSE i + size

(* RolloverPos with the row count used for both axes                       *)
RolloverPos_rows_for_both(pos, grid_size) ==
    << negative_index_rollover(pos[1], grid_size[1]),
       negative_index_rollover(pos[2], grid_size[1]) >>

(* tuple(negative_index_rollover(i, size) for i,size in zip(pos, grid_size)) *)
RolloverPos(pos, grid_size) ==
    << negative_index_rollover(pos[1], grid_size[1]),
       negative_index_rollover(pos[2], grid_size[2]) >>

RolloverList(hazards, grid_size) ==
    [i \in 1..Len(hazards) |-> RolloverPos(hazards[i], grid_size)]

InList(x, list) == \E i \in 1..Len(list) : list[i] = x

(* Python list indexing list[i] on a list of n elements: the 0-based index *)
(* that is read, or -1 when IndexError is raised.                          *)
PyListIndex(n, i) ==
    IF i >= 0 /\ i < n THEN i
    ELSE IF i < 0 /\ i >= -n THEN i + n
    ELSE -1

(* grid.arrange_in_grid(rows, cols, buff=0): the centre of the cell that   *)
(* is the index-th submobject of the grid, filled row by row.              *)
CellCenter(grid_size, index) ==
    << CellSide * (index % grid_size[2]), CellSide * (index \div grid_size[2]) >>

Dist2(p, q) == (p[1] - q[1]) * (p[1] - q[1]) + (p[2] - q[2]) * (p[2] - q[2])

---------------------------------------------------------------------------
(* Construction                                                            *)

(* cell_asset with the two tests in the other order                        *)
cell_asset_hazard_first(pos, goal_pos, hazards) ==
    IF InList(pos, hazards) THEN "grid-lava"
    ELSE IF pos = goal_pos THEN "grid-goal"
    ELSE "grid-empty"

(* The asset copied into cell pos: the goal is tested first.               *)
cell_asset(pos, goal_pos, hazards) ==
    IF pos = goal_pos THEN "grid-goal"
    ELSE IF InList(pos, hazards) THEN "grid-lava"
    ELSE "grid-empty"

(* itertools.chain over the rows: the cells in one list, row after row.    *)
RECURSIVE chain(_)
chain(rows) ==
    IF rows = << >> THEN << >> ELSE Head(rows) \o chain(Tail(rows))

(* MiniGrid.build_minigrid.  Only icab_demo.py rolls negative indices over *)
(* a second time here; scenes.py has that block commented out.  __init__   *)
(* always passes player_pos and goal_pos, so the None defaults are unused. *)
build_minigrid(impl, grid_size, player_pos, goal_pos, hazards) ==
    LET again == impl = "icab_demo"
        pp == IF again /\ (player_pos[1] < 0 \/ player_pos[2] < 0)
              THEN RolloverPos(player_pos, grid_size) ELSE player_pos
        gp == IF again /\ (goal_pos[1] < 0 \/ goal_pos[2] < 0)
              THEN RolloverPos(goal_pos, grid_size) ELSE goal_pos
        hz == IF again /\ (\E i \in 1..Len(hazards) : hazards[i][1] < 0 \/ hazards[i][2] < 0)
              THEN RolloverList(hazards, grid_size) ELSE hazards
        rows == [r \in 1..grid_size[1] |->
                    [c \in 1..grid_size[2] |-> cell_asset(<<r - 1, c - 1>>, gp, hz)]]
        grid == chain(rows)
        index == PyListIndex(Len(grid), pp[1] * grid_size[1] + pp[2])
    IN  IF index = -1
        THEN [raised |-> "IndexError", world |-> [grid |-> grid]]
        ELSE [raised |-> NoError,
              world |-> [player |-> [center |-> CellCenter(grid_size, index), angle |-> 270],
                         grid |-> grid]]

(* MiniGrid.__init__ of either file: the constructed object and the error  *)
(* raised, if any.  icab_demo.py accepts player_look_angle and ignores it; *)
(* scenes.py stores it and the resolved player position.                   *)
MiniGridInit(impl, grid_size, player_look_angle, player_grid_pos, goal_grid_pos, hazards_grid_pos) ==
    LET pp == RolloverPos(player_grid_pos, grid_size)
        gp == RolloverPos(goal_grid_pos, grid_size)
        hz == RolloverList(hazards_grid_pos, grid_size)
        built == build_minigrid(impl, grid_size, pp, gp, hz)
        common == [impl |-> impl, grid_size |-> grid_size, goal_pos |-> gp,
                   hazards_grid_pos |-> hz, world |-> built.world]
    IN  [raised |-> built.raised,
         m |-> IF impl = "icab_demo" THEN common
               ELSE [impl |-> impl, grid_size |-> grid_size, goal_pos |-> gp,
                     hazards_grid_pos |-> hz, world |-> built.world,
                     player_look_angle |-> player_look_angle, player_grid_pos |-> pp]]

---------------------------------------------------------------------------
(* Queries                                                                 *)

(* pos_to_index without the stride                                         *)
pos_to_index_no_stride(m, pos) == pos[1] + pos[2]

pos_to_index(m, pos) == pos[1] * m.grid_size[1] + pos[2]

index_to_pos(m, index) == << index \div m.grid_size[1], index % m.grid_size[2] >>

(* min(grid, key=distance to coord), then its index: the first cell of the *)
(* list among those whose centre is nearest.                               *)
coord_to_index(m, coord) ==
    LET n == Len(m.world.grid)
        d(k) == Dist2(CellCenter(m.grid_size, k), coord)
    IN  CHOOSE k \in 0..(n - 1) :
            /\ \A j \in 0..(n - 1) : d(k) <= d(j)
            /\ \A j \in 0..(k - 1) : d(j) > d(k)

coord_to_pos(m, coord) == index_to_pos(m, coord_to_index(m, coord))

get_player_coord(m) == m.world.player.center

get_player_pos(m) == coord_to_pos(m, get_player_coord(m))

get_goal_pos(m) == m.goal_pos

get_hazards_pos(m) == m.hazards_grid_pos

(* self.world['grid'][self.pos_to_index(pos)]: the cell object, named by   *)
(* its place in the list and its kind, or the IndexError of the subscript. *)
get_grid_at_pos(m, pos) ==
    LET index == PyListIndex(Len(m.world.grid), pos_to_index(m, pos))
    IN  IF index = -1
        THEN [raised |-> "IndexError"]
        ELSE [raised |-> NoError,
              value |-> [index |-> index, kind |-> m.world.grid[index + 1]]]

get_goal(m) == get_grid_at_pos(m, get_goal_pos(m))

pos_to_coord(m, pos) ==
    LET index == PyListIndex(Len(m.world.grid), pos_to_index(m, pos))
    IN  IF index = -1
        THEN [raised |-> "IndexError"]
        ELSE [raised |-> NoError, value |-> CellCenter(m.grid_size, index)]

get_goal_coord(m) == pos_to_coord(m, m.goal_pos)

(* Line.get_angle() of the marker's tracking line, in degrees: a value in  *)
(* (-180, 180].  A line turned by half a turn reads as +180 or -180,       *)
(* depending on the rounding of its end points.                            *)
get_angle(m) ==
    LET a == m.world.player.angle
    IN  IF a = 180 THEN {180, -180}
        ELSE IF a > 180 THEN {a - 360}
        ELSE {a}

(* round_to_nearest_angle without the reduction to one turn                *)
round_to_nearest_angle_no_wrap(angle) ==
    LET q == angle \div 90
        r == angle % 90
        rounded == IF 2 * r < 90 THEN q
                   ELSE IF 2 * r > 90 THEN q + 1
                   ELSE IF q % 2 = 0 THEN q ELSE q + 1
    IN  rounded * 90

(* round_to_nearest_angle rounding down instead of to the nearest          *)
round_to_nearest_angle_floor(angle) == ((angle \div 90) * 90) % 360

(* MiniGrid.round_to_nearest_angle: Python round() rounds halves to even.  *)
round_to_nearest_angle(angle) ==
    LET q == angle \div 90
        r == angle % 90
        rounded == IF 2 * r < 90 THEN q
                   ELSE IF 2 * r > 90 THEN q + 1
                   ELSE IF q % 2 = 0 THEN q ELSE q + 1
    IN  (rounded * 90) % 360

---------------------------------------------------------------------------
(* Commands.  Each returns the set of possible outcomes [m, raised]: the   *)
(* object after the call and the exception raised by it, if any.           *)

(* Ahead with 270 read as "down the column" and 180 as "along the row"     *)
Ahead_down_at_270(pos, look) ==
    IF look % 360 = 0 THEN <<pos[1] - 1, pos[2]>>
    ELSE IF look = 90 THEN <<pos[1], pos[2] - 1>>
    ELSE IF look = 180 THEN <<pos[1], pos[2] + 1>>
    ELSE IF look = 270 THEN <<pos[1] + 1, pos[2]>>
    ELSE pos

(* The cell in front of <<r, c>> for a look angle; <<r, c>> itself when no *)
(* branch of the if/elif chain matches.                                    *)
Ahead(pos, look) ==
    IF look % 360 = 0 THEN <<pos[1] - 1, pos[2]>>
    ELSE IF look = 90 THEN <<pos[1], pos[2] - 1>>
    ELSE IF look = 180 THEN <<pos[1] + 1, pos[2]>>
    ELSE IF look = 270 THEN <<pos[1], pos[2] + 1>>
    ELSE pos

(* UP, LEFT, DOWN, RIGHT as <<dx, dy>>                                     *)
ShiftDirection(look) ==
    IF look % 360 = 0 THEN <<0, -1>>
    ELSE IF look = 90 THEN <<-1, 0>>
    ELSE IF look = 180 THEN <<0, 1>>
    ELSE <<1, 0>>

(* ForwardFromReading with hazard cells treated as walls                   *)
ForwardFromReading_hazards_block(m, reading) ==
    LET pos == get_player_pos(m)
        player_look_angle == round_to_nearest_angle(reading)
        target == Ahead(pos, player_look_angle)
        index == PyListIndex(Len(m.world.grid), target[1] * m.grid_size[1] + target[2])
    IN  IF InGrid(m.grid_size, target) /\ ~InList(target, m.hazards_grid_pos)
        THEN IF index = -1
             THEN [m |-> m, raised |-> "IndexError"]
             ELSE [m |-> [m EXCEPT !.world.player.center = CellCenter(m.grid_size, index)],
                   raised |-> NoError]
        ELSE [m |-> m, raised |-> NoError]

(* icab_demo.py: position and angle are read back from the marker.         *)
ForwardFromReading(m, reading) ==
    LET pos == get_player_pos(m)
        player_look_angle == round_to_nearest_angle(reading)
        target == Ahead(pos, player_look_angle)
        index == PyListIndex(Len(m.world.grid), target[1] * m.grid_size[1] + target[2])
    IN  IF InGrid(m.grid_size, target)
        THEN IF index = -1
             THEN [m |-> m, raised |-> "IndexError"]
             ELSE [m |-> [m EXCEPT !.world.player.center = CellCenter(m.grid_size, index)],
                   raised |-> NoError]
        ELSE [m |-> m, raised |-> NoError]

(* scenes.py: position and angle are the object's own fields; the marker   *)
(* is shifted by a unit vector.                                            *)
ForwardFromFields(m) ==
    LET look == m.player_look_angle
        target == Ahead(m.player_grid_pos, look)
        matched == look % 360 = 0 \/ look \in {90, 180, 270}
        d == ShiftDirection(look)
        c == m.world.player.center
    IN  IF InGrid(m.grid_size, target)
        THEN IF matched
             THEN [m |-> [m EXCEPT !.player_grid_pos = target,
                                   !.world.player.center = <<c[1] + d[1], c[2] + d[2]>>],
                   raised |-> NoError]
             ELSE [m |-> m, raised |-> "UnboundLocalError"]
        ELSE [m |-> m, raised |-> NoError]

move_player_forward(m) ==
    IF m.impl = "icab_demo"
    THEN { ForwardFromReading(m, reading) : reading \in get_angle(m) }
    ELSE { ForwardFromFields(m) }

(* player.rotate(turn_amount*DEGREES), and in scenes.py the angle field    *)
Turn(m, turn_amount) ==
    LET rotated == [m EXCEPT !.world.player.angle = (@ + turn_amount) % 360]
    IN  IF m.impl = "icab_demo" THEN rotated
        ELSE [rotated EXCEPT !.player_look_angle = (@ + turn_amount) % 360]

(* move_player_left with the sign of turn_amount wrong                     *)
move_player_left_sign(m) == { [m |-> Turn(m, -90), raised |-> NoError] }

move_player_left(m) == { [m |-> Turn(m, 90), raised |-> NoError] }

(* move_player_right with turn_amount copied from move_player_left         *)
move_player_right_as_left(m) == { [m |-> Turn(m, 90), raised |-> NoError] }

move_player_right(m) == { [m |-> Turn(m, -90), raised |-> NoError] }

move_player(m, action) ==
    IF action = LEFT THEN move_player_left(m)
    ELSE IF action = RIGHT THEN move_player_right(m)
    ELSE move_player_forward(m)

---------------------------------------------------------------------------
(* MiniGridMovePlayer (scenes.py).  The animation object is a record of    *)
(* its attributes; before, alpha and applied are not attributes: they keep *)
(* the MiniGrid as begin() found it, the alpha of the last interpolate     *)
(* call (-1 before the first) and the sum of the rotations given to the    *)
(* marker since begin().  An alpha is counted in halves: 0, 1, 2 stand for *)
(* 0, 0.5 and 1, and Part(k, x) is alpha * x for an even x.                 *)
Alphas == 0..2

NoMover == [stage |-> "none"]

Part(k, x) == (k * x) \div 2

(* interpolate_mobject(alpha)                                              *)
interpolate_mobject(m, mv, k) ==
    IF mv.action \in {LEFT, RIGHT}
    THEN LET incremental_rotation == Part(k, mv.turn_amount) - mv.turn_amount_current
         IN  [m |-> [m EXCEPT !.world.player.angle = (@ + incremental_rotation) % 360],
              mover |-> [mv EXCEPT !.turn_amount_current = @ + incremental_rotation,
                                   !.applied = @ + incremental_rotation,
                                   !.alpha = k,
                                   !.stage = "running"]]
    ELSE LET a == mv.player_start_center
             b == mv.player_end_center
             new_position == << a[1] + Part(k, b[1] - a[1]), a[2] + Part(k, b[2] - a[2]) >>
         IN  [m |-> [m EXCEPT !.world.player.center = new_position],
              mover |-> [mv EXCEPT !.alpha = k, !.stage = "running"]]

(* begin(): the start pose is taken, the end pose is worked out (for       *)
(* FORWARD with the new position written to the MiniGrid at once), and     *)
(* Animation.begin() makes the first call interpolate(0).                  *)
begin(m, action) ==
    LET n == Len(m.world.grid)
        pos == m.player_grid_pos
        look == m.player_look_angle
        start == PyListIndex(n, pos_to_index(m, pos))
        start_center == CellCenter(m.grid_size, start)
        turn_amount == IF action = LEFT THEN 90 ELSE IF action = RIGHT THEN -90 ELSE 0
        target == Ahead(pos, look)
        end == PyListIndex(n, pos_to_index(m, target))
        moved == [m EXCEPT !.player_grid_pos = target]
        mv(end_center) ==
            [stage |-> "begun", action |-> action,
             player_start_angle |-> look, player_current_angle |-> look,
             player_start_center |-> start_center, player_end_center |-> end_center,
             turn_amount |-> turn_amount, turn_amount_current |-> 0,
             player_end_angle |-> (look + turn_amount) % 360,
             before |-> m, alpha |-> -1, applied |-> 0]
    IN  IF start = -1
        THEN [m |-> m, mover |-> [stage |-> "raised", action |-> action, before |-> m],
              raised |-> "IndexError"]
        ELSE IF action \in {LEFT, RIGHT} \/ ~InGrid(m.grid_size, target)
        THEN LET first == interpolate_mobject(m, mv(start_center), 0)
             IN  [m |-> first.m, mover |-> [first.mover EXCEPT !.alpha = -1, !.stage = "begun"],
                  raised |-> NoError]
        ELSE IF end = -1
        THEN [m |-> moved, mover |-> [stage |-> "raised", action |-> action, before |-> m],
              raised |-> "IndexError"]
        ELSE LET first == interpolate_mobject(moved, mv(CellCenter(m.grid_size, end)), 0)
             IN  [m |-> first.m, mover |-> [first.mover EXCEPT !.alpha = -1, !.stage = "begun"],
                  raised |-> NoError]

(* finish() without the last rotation                                      *)
finish_no_last_rotation(m, mv) ==
    IF mv.action \in {LEFT, RIGHT}
    THEN [m |-> [m EXCEPT !.player_look_angle = mv.player_end_angle],
          mover |-> [mv EXCEPT !.stage = "finished"]]
    ELSE [m |-> [m EXCEPT !.world.player.center = mv.player_end_center],
          mover |-> [mv EXCEPT !.stage = "finished"]]

(* finish(): the rest of the turn is given to the marker and the look      *)
(* angle is written, or the marker is moved to the end coordinate.         *)
finish(m, mv) ==
    IF mv.action \in {LEFT, RIGHT}
    THEN LET incremental_rotation == mv.turn_amount - mv.turn_amount_current
         IN  [m |-> [m EXCEPT !.world.player.angle = (@ + incremental_rotation) % 360,
                              !.player_look_angle = mv.player_end_angle],
              mover |-> [mv EXCEPT !.applied = @ + incremental_rotation,
                                   !.stage = "finished"]]
    ELSE [m |-> [m EXCEPT !.world.player.center = mv.player_end_center],
          mover |-> [mv EXCEPT !.stage = "finished"]]

(* What a caller observes of the agent.                                    *)
PlayerPos(m) == IF m.impl = "icab_demo" THEN get_player_pos(m) ELSE m.player_grid_pos

LookAngles(m) ==
    IF m.impl = "icab_demo"
    THEN { round_to_nearest_angle(reading) : reading \in get_angle(m) }
    ELSE { m.player_look_angle }

---------------------------------------------------------------------------
(* Initial states: every construction within the bounds.                   *)

Impls == {"icab_demo", "scenes"}

Cardinals == {0, 90, 180, 270}

SeqsUpTo(S, n) == UNION { [1..k -> S] : k \in 0..n }

(* hazards_grid_pos: lists of distinct cells, written row by row as the     *)
(* callers write them.                                                     *)
HazardConfigs(grid_size) ==
    { hz \in SeqsUpTo(Positions(grid_size), MaxHazards) :
        \A i, j \in 1..Len(hz) :
            i < j => hz[i][1] * grid_size[2] + hz[i][2] < hz[j][1] * grid_size[2] + hz[j][2] }

GoalConfigs(grid_size) == Positions(grid_size) \cup { <<-1, -1>> }

(* player_look_angle is left at its default by every caller.              *)
LookConfigs == {270}

(* player_grid_pos: the default (top-left) or, by negative indices, the    *)
(* bottom-right cell.                                                      *)
PlayerConfigs == { <<0, 0>>, <<-1, -1>> }

NotRecorded == [impl |-> "not recorded"]

NoResult == [op |-> "none"]

NoTwin == [impl |-> "none"]

Made(impl, grid_size, look, pp, gp, hz) ==
    LET made == MiniGridInit(impl, grid_size, look, pp, gp, hz)
    IN  /\ minigrid = made.m
        /\ raised = made.raised
        /\ hist = << >>
        /\ pc = "idle"
        /\ s = << >>
        /\ path = << >>
        /\ anims = << >>
        /\ played = 0
        /\ shadow = made.m
        /\ script = << >>
        /\ result = NoResult
        /\ mover = NoMover
        /\ twin = NoTwin

Constructed(impl, grid_size, look, pp, gp, hz) ==
    /\ Made(impl, grid_size, look, pp, gp, hz)
    /\ args = NotRecorded

Init ==
    \E impl \in Impls, grid_size \in GridSizes :
        \E look \in LookConfigs, pp \in PlayerConfigs,
           gp \in GoalConfigs(grid_size),
           hz \in HazardConfigs(grid_size) :
            Constructed(impl, grid_size, look, pp, gp, hz)

(* Constructions with the arguments recorded.  Every index of an axis of   *)
(* size n is drawn from -n .. n-1, the range Python indexing accepts.      *)
SignedPositions(grid_size) ==
    ((-grid_size[1])..(grid_size[1] - 1)) \X ((-grid_size[2])..(grid_size[2] - 1))

ConstructedFrom(a) ==
    /\ Made(a.impl, a.grid_size, a.player_look_angle, a.player_grid_pos,
            a.goal_grid_pos, a.hazards_grid_pos)
    /\ args = a

(* Either the player, the goal and the look angle are given and there are  *)
(* no hazards, or the hazards are given and the rest is left at its        *)
(* default.                                                                *)
InitArgs ==
    \E impl \in Impls, grid_size \in GridSizes :
        \/ \E look \in Cardinals, pp \in SignedPositions(grid_size),
              gp \in SignedPositions(grid_size) :
                ConstructedFrom([impl |-> impl, grid_size |-> grid_size,
                                 player_look_angle |-> look, player_grid_pos |-> pp,
                                 goal_grid_pos |-> gp, hazards_grid_pos |-> << >>])
        \/ \E hz \in SeqsUpTo(SignedPositions(grid_size), MaxHazards) :
                ConstructedFrom([impl |-> impl, grid_size |-> grid_size,
                                 player_look_angle |-> 270, player_grid_pos |-> <<0, 0>>,
                                 goal_grid_pos |-> <<-1, -1>>, hazards_grid_pos |-> hz])

---------------------------------------------------------------------------
(* Direct calls of move_player on the live object.                         *)

Remember(action) ==
    << [action |-> action, before |-> minigrid] >>
        \o (IF hist = << >> THEN << >> ELSE << hist[1] >>)

Invoke(action) ==
    /\ raised = NoError
    /\ pc = "idle"
    /\ \E out \in move_player(minigrid, action) :
        /\ minigrid' = out.m
        /\ raised' = out.raised
    /\ hist' = Remember(action)
    /\ UNCHANGED <<pc, s, path, anims, played, shadow, extra>>

Call(action) == Invoke(action) /\ UNCHANGED log

MoveLeft == Call(LEFT)

MoveRight == Call(RIGHT)

MoveForward == Call(FORWARD)

---------------------------------------------------------------------------
(* minigrid_path_str_to_list                                               *)

Chars == {"l", "r", "f", "L", "R", "F", "x"}

(* str.lower() on one character                                            *)
LowerChar(ch) ==
    IF ch = "L" THEN "l"
    ELSE IF ch = "R" THEN "r"
    ELSE IF ch = "F" THEN "f"
    ELSE ch

lower(str) == [i \in 1..Len(str) |-> LowerChar(str[i])]

(* The for loop: a character matching no branch appends nothing.           *)
RECURSIVE PathLoop(_, _)
PathLoop(str, acc) ==
    IF str = << >> THEN acc
    ELSE LET a == Head(str)
         IN  PathLoop(Tail(str),
                 IF a = "l" THEN Append(acc, LEFT)
                 ELSE IF a = "r" THEN Append(acc, RIGHT)
                 ELSE IF a = "f" THEN Append(acc, FORWARD)
                 ELSE acc)

(* minigrid_path_str_to_list without the assert                            *)
minigrid_path_str_to_list_no_assert(str) ==
    [raised |-> NoError, path |-> PathLoop(lower(str), << >>)]

(* minigrid_path_str_to_list whose loop runs over s instead of s.lower()   *)
minigrid_path_str_to_list_loop_raw(str) ==
    IF \A i \in 1..Len(str) : lower(str)[i] \in {"l", "r", "f"}
    THEN [raised |-> NoError, path |-> PathLoop(str, << >>)]
    ELSE [raised |-> "AssertionError", path |-> << >>]

minigrid_path_str_to_list(str) ==
    IF \A i \in 1..Len(str) : lower(str)[i] \in {"l", "r", "f"}
    THEN [raised |-> NoError, path |-> PathLoop(lower(str), << >>)]
    ELSE [raised |-> "AssertionError", path |-> << >>]

---------------------------------------------------------------------------
(* animate_actions (icab_demo.py)                                          *)

(* copy that takes a newly placed marker instead of the current one        *)
copy_new_player(m) ==
    [m EXCEPT !.world.player = [center |-> CellCenter(m.grid_size, 0), angle |-> 270]]

(* Mobject.copy() is a deep copy: the shadow shares nothing with the live  *)
(* object.                                                                 *)
copy(m) == m

ApplyMethod(action) == [type |-> "ApplyMethod", action |-> action]

CustomFlash(event, pos) == [type |-> "CustomFlash", event |-> event, pos |-> pos]

(* collision_events with two independent ifs instead of if/elif            *)
collision_events_two_ifs(shadow_m, player_pos) ==
    [raised |-> NoError,
     cues |-> (IF InList(player_pos, get_hazards_pos(shadow_m))
               THEN << CustomFlash("hazard", player_pos) >> ELSE << >>)
              \o (IF player_pos = get_goal_pos(shadow_m)
                  THEN << CustomFlash("goal", player_pos) >> ELSE << >>)]

(* The if/elif after the shadow has moved: the cues appended for this step *)
(* (at most one) and the error raised while building them.  The hazard cue *)
(* reads shadow.get_grid_at_pos(player_pos) and the goal cue reads         *)
(* shadow.get_goal(), both through pos_to_index.                           *)
collision_events(shadow_m, player_pos) ==
    LET n == Len(shadow_m.world.grid)
    IN  IF InList(player_pos, get_hazards_pos(shadow_m))
        THEN IF PyListIndex(n, pos_to_index(shadow_m, player_pos)) = -1
             THEN [raised |-> "IndexError", cues |-> << >>]
             ELSE [raised |-> NoError, cues |-> << CustomFlash("hazard", player_pos) >>]
        ELSE IF player_pos = get_goal_pos(shadow_m)
        THEN IF PyListIndex(n, pos_to_index(shadow_m, get_goal_pos(shadow_m))) = -1
             THEN [raised |-> "IndexError", cues |-> << >>]
             ELSE [raised |-> NoError, cues |-> << CustomFlash("goal", player_pos) >>]
        ELSE [raised |-> NoError, cues |-> << >>]

(* ShadowReplay with the cue of a step put before its move                 *)
RECURSIVE ShadowReplay_cue_first(_, _, _)
ShadowReplay_cue_first(shadow_m, actions, acc) ==
    IF actions = << >>
    THEN { [anims |-> acc, shadow |-> shadow_m, raised |-> NoError] }
    ELSE UNION {
            IF out.raised # NoError
            THEN { [anims |-> << >>, shadow |-> out.m, raised |-> out.raised] }
            ELSE LET ev == collision_events(out.m, get_player_pos(out.m))
                 IN  IF ev.raised # NoError
                     THEN { [anims |-> << >>, shadow |-> out.m, raised |-> ev.raised] }
                     ELSE ShadowReplay_cue_first(out.m, Tail(actions),
                              (acc \o ev.cues) \o << ApplyMethod(Head(actions)) >>)
            : out \in move_player(shadow_m, Head(actions)) }

(* ShadowReplay with a cue only for a step that changed the position       *)
RECURSIVE ShadowReplay_cue_on_move(_, _, _)
ShadowReplay_cue_on_move(shadow_m, actions, acc) ==
    IF actions = << >>
    THEN { [anims |-> acc, shadow |-> shadow_m, raised |-> NoError] }
    ELSE UNION {
            IF out.raised # NoError
            THEN { [anims |-> << >>, shadow |-> out.m, raised |-> out.raised] }
            ELSE LET ev == collision_events(out.m, get_player_pos(out.m))
                     cues == IF get_player_pos(out.m) = get_player_pos(shadow_m)
                             THEN << >> ELSE ev.cues
                 IN  IF ev.raised # NoError
                     THEN { [anims |-> << >>, shadow |-> out.m, raised |-> ev.raised] }
                     ELSE ShadowReplay_cue_on_move(out.m, Tail(actions),
                              Append(acc, ApplyMethod(Head(actions))) \o cues)
            : out \in move_player(shadow_m, Head(actions)) }

(* The for loop of animate_actions from the given shadow: the possible     *)
(* results [anims, shadow, raised].                                        *)
RECURSIVE ShadowReplay(_, _, _)
ShadowReplay(shadow_m, actions, acc) ==
    IF actions = << >>
    THEN { [anims |-> acc, shadow |-> shadow_m, raised |-> NoError] }
    ELSE UNION {
            IF out.raised # NoError
            THEN { [anims |-> << >>, shadow |-> out.m, raised |-> out.raised] }
            ELSE LET ev == collision_events(out.m, get_player_pos(out.m))
                 IN  IF ev.raised # NoError
                     THEN { [anims |-> << >>, shadow |-> out.m, raised |-> ev.raised] }
                     ELSE ShadowReplay(out.m, Tail(actions),
                              Append(acc, ApplyMethod(Head(actions))) \o ev.cues)
            : out \in move_player(shadow_m, Head(actions)) }

(* animate_actions with the replay made on the object itself               *)
animate_actions_on_self(m, actions) ==
    { [anims |-> res.anims, shadow |-> res.shadow, raised |-> res.raised,
       live |-> res.shadow] : res \in ShadowReplay(m, actions, << >>) }

(* The results of a call: the timeline, the shadow as it is deleted, the   *)
(* error raised, and the object the call was made on as the call leaves    *)
(* it.                                                                     *)
animate_actions(m, actions) ==
    { [anims |-> res.anims, shadow |-> res.shadow, raised |-> res.raised,
       live |-> m] : res \in ShadowReplay(copy(m), actions, << >>) }

---------------------------------------------------------------------------
(* Building and playing a timeline.                                        *)

(* A call of minigrid.animate_actions: the timeline is returned, or the    *)
(* call raises and nothing is returned.                                    *)
Built(actions) ==
    /\ raised = NoError
    /\ minigrid.impl = "icab_demo"
    /\ \E res \in animate_actions(minigrid, actions) :
        /\ minigrid' = res.live
        /\ IF res.raised # NoError
           THEN /\ raised' = res.raised
                /\ UNCHANGED <<pc, anims, played, shadow>>
           ELSE /\ anims' = res.anims
                /\ shadow' = res.shadow
                /\ played' = 0
                /\ pc' = "playing"
                /\ raised' = NoError
    /\ s' = << >>
    /\ path' = << >>
    /\ UNCHANGED <<hist, extra>>

Build(actions) == Built(actions) /\ UNCHANGED log

(* The caller passes action objects.                                       *)
AnimateActions ==
    /\ pc = "idle"
    /\ \E actions \in SeqsUpTo(MinigridAction, MaxActions) : Build(actions)

(* The same with the call recorded.                                        *)
AnimateRecorded ==
    /\ pc = "idle"
    /\ \E actions \in SeqsUpTo(MinigridAction, MaxActions) :
        /\ Built(actions)
        /\ script' = << actions >>
    /\ UNCHANGED <<args, result>>

(* The caller evaluates minigrid_path_str_to_list(s) for the argument ...  *)
Parse(str) ==
    /\ raised = NoError
    /\ pc = "idle"
    /\ LET res == minigrid_path_str_to_list(str)
       IN  /\ s' = str
           /\ path' = res.path
           /\ raised' = res.raised
           /\ pc' = IF res.raised = NoError THEN "parsed" ELSE pc
    /\ UNCHANGED <<minigrid, hist, anims, played, shadow, extra>>

ParsePath ==
    /\ raised = NoError
    /\ pc = "idle"
    /\ \E str \in SeqsUpTo(Chars, MaxPathLen) : Parse(str)
    /\ UNCHANGED log

(* ... and passes the list to animate_actions.                             *)
AnimatePath ==
    /\ pc = "parsed"
    /\ Build(path)

(* Succession plays the entries one at a time, in order.  ApplyMethod      *)
(* applies move_player to a target made from the live object as it is when *)
(* the entry begins, and the live object ends as that target.              *)
PlayMove ==
    /\ raised = NoError
    /\ pc = "playing"
    /\ played < Len(anims)
    /\ anims[played + 1].type = "ApplyMethod"
    /\ \E out \in move_player(minigrid, anims[played + 1].action) :
        /\ minigrid' = out.m
        /\ raised' = out.raised
    /\ played' = played + 1
    /\ UNCHANGED <<hist, pc, s, path, anims, shadow, log, extra>>

(* A flash changes nothing of the MiniGrid.                                *)
PlayCue ==
    /\ raised = NoError
    /\ pc = "playing"
    /\ played < Len(anims)
    /\ anims[played + 1].type = "CustomFlash"
    /\ played' = played + 1
    /\ UNCHANGED <<minigrid, raised, hist, pc, s, path, anims, shadow, log, extra>>

(* The timeline has been played; the script goes on to its next call.      *)
Finish ==
    /\ raised = NoError
    /\ pc = "playing"
    /\ played = Len(anims)
    /\ pc' = "idle"
    /\ anims' = << >>
    /\ played' = 0
    /\ UNCHANGED <<minigrid, raised, hist, s, path, shadow, log, extra>>

Next == MoveLeft \/ MoveRight \/ MoveForward

Spec == Init /\ [][Next]_vars

(* Timelines built from action objects, one per behaviour, on every        *)
(* icab_demo.py construction.                                              *)
InitAnim == Init /\ minigrid.impl = "icab_demo"

NextAnim == AnimateActions \/ PlayMove \/ PlayCue

SpecAnim == InitAnim /\ [][NextAnim]_vars

(* Timelines built from path strings, one after the other, on a MiniGrid   *)
(* constructed with the default arguments.                                 *)
InitPath ==
    \E grid_size \in GridSizes :
        Constructed("icab_demo", grid_size, 270, <<0, 0>>, <<-1, -1>>, << >>)

NextPath == ParsePath \/ AnimatePath \/ PlayMove \/ PlayCue \/ Finish

SpecPath == InitPath /\ [][NextPath]_vars

MaxScript == 2

(* Two timelines built for the same MiniGrid, the second before the first  *)
(* is played, and then played one after the other; both calls are          *)
(* recorded.                                                               *)
BuildTwice ==
    /\ raised = NoError
    /\ pc = "idle"
    /\ minigrid.impl = "icab_demo"
    /\ \E first \in SeqsUpTo(MinigridAction, MaxScript),
          second \in SeqsUpTo(MinigridAction, MaxScript) :
        /\ script' = << first, second >>
        /\ \E r1 \in animate_actions(minigrid, first) :
            IF r1.raised # NoError
            THEN /\ minigrid' = r1.live
                 /\ raised' = r1.raised
                 /\ UNCHANGED <<pc, anims, played, shadow>>
            ELSE \E r2 \in animate_actions(r1.live, second) :
                    /\ minigrid' = r2.live
                    /\ IF r2.raised # NoError
                       THEN /\ raised' = r2.raised
                            /\ UNCHANGED <<pc, anims, played, shadow>>
                       ELSE /\ anims' = r1.anims \o r2.anims
                            /\ shadow' = r2.shadow
                            /\ played' = 0
                            /\ pc' = "playing"
                            /\ raised' = NoError
    /\ UNCHANGED <<hist, s, path, args, result, extra>>

NextTwice == BuildTwice \/ PlayMove \/ PlayCue

(* icab_demo.py constructions with hazards, the rest left at its default.  *)
InitHazards ==
    \E grid_size \in GridSizes : \E hz \in HazardConfigs(grid_size) :
        Constructed("icab_demo", grid_size, 270, <<0, 0>>, <<-1, -1>>, hz)

SpecTwice == InitHazards /\ [][NextTwice]_vars

(* One timeline built from action objects on these constructions, and      *)
(* played.                                                                 *)
NextTimeline == AnimateRecorded \/ PlayMove \/ PlayCue

SpecTimeline == InitHazards /\ [][NextTimeline]_vars

(* The demo: the 5x5 environments A and B of the experiment section, and   *)
(* the path strings its script passes to animate_actions, up to MaxScript  *)
(* of them one after the other; the script is recorded.                    *)
DemoHazardsA == << <<1, 1>>, <<1, 2>>, <<1, 3>> >>

DemoHazardsB == << <<1, 1>>, <<2, 1>>, <<3, 1>> >>

DemoPaths ==
    { <<"f", "f", "f">>,
      <<"f", "r", "f">>,
      <<"r", "f", "f", "f">>,
      <<"f", "l", "f", "f", "f">>,
      <<"r", "f", "f", "l">>,
      <<"f", "f", "r">>,
      <<"f", "f", "f", "f", "r", "f", "f">>,
      <<"f", "f", "f", "f", "l", "f", "f">>,
      <<"f", "f", "f", "r", "f", "f", "f", "f", "l", "f">> }

InitDemo ==
    \E hz \in {DemoHazardsA, DemoHazardsB} :
        Constructed("icab_demo", <<5, 5>>, 270, <<0, 0>>, <<-1, -1>>, hz)

DemoParsePath ==
    /\ raised = NoError
    /\ pc = "idle"
    /\ Len(script) < MaxScript
    /\ \E str \in DemoPaths :
        /\ Parse(str)
        /\ script' = Append(script, str)
    /\ UNCHANGED <<args, result>>

NextDemo == DemoParsePath \/ AnimatePath \/ PlayMove \/ PlayCue \/ Finish

SpecDemo == InitDemo /\ [][NextDemo]_vars

(* Forward moves on the objects constructed from recorded arguments.       *)
NextArgs == MoveForward

(* icab_demo.py constructions whose goal indices go down to twice the size *)
(* of their axis below zero, the rest left at its default, and direct      *)
(* moves on them.                                                          *)
FarSignedPositions(grid_size) ==
    ((-2 * grid_size[1])..(grid_size[1] - 1)) \X ((-2 * grid_size[2])..(grid_size[2] - 1))

InitGoal ==
    \E grid_size \in GridSizes : \E gp \in FarSignedPositions(grid_size) :
        ConstructedFrom([impl |-> "icab_demo", grid_size |-> grid_size,
                         player_look_angle |-> 270, player_grid_pos |-> <<0, 0>>,
                         goal_grid_pos |-> gp, hazards_grid_pos |-> << >>])

SpecGoal == InitGoal /\ [][Next]_vars

SpecArgs == InitArgs /\ [][NextArgs]_vars

(* Queries on a constructed object.  A query changes nothing of the object; *)
(* its name, argument and value are recorded, and an exception it raises   *)
(* ends the script.                                                        *)
Returns(op, arg, value) ==
    /\ raised = NoError
    /\ pc = "idle"
    /\ result' = [op |-> op, arg |-> arg, value |-> value]
    /\ UNCHANGED <<minigrid, raised, hist, pc, s, path, anims, played, shadow, args, script, extra>>

Answers(op, arg, out) ==
    /\ raised = NoError
    /\ pc = "idle"
    /\ minigrid.impl = "icab_demo"
    /\ result' = [op |-> op, arg |-> arg,
                  value |-> IF out.raised = NoError THEN out.value ELSE << >>]
    /\ raised' = out.raised
    /\ UNCHANGED <<minigrid, hist, pc, s, path, anims, played, shadow, args, script, extra>>

QueryPosToIndex ==
    \E pos \in Positions(minigrid.grid_size) :
        Returns("pos_to_index", pos, pos_to_index(minigrid, pos))

QueryIndexToPos ==
    \E index \in 0..(minigrid.grid_size[1] * minigrid.grid_size[2] - 1) :
        Returns("index_to_pos", index, index_to_pos(minigrid, index))

QueryPosToCoord ==
    \E pos \in Positions(minigrid.grid_size) :
        Answers("pos_to_coord", pos, pos_to_coord(minigrid, pos))

QueryGridAtPos ==
    \E pos \in Positions(minigrid.grid_size) :
        Answers("get_grid_at_pos", pos, get_grid_at_pos(minigrid, pos))

QueryGoal == Answers("get_goal", << >>, get_goal(minigrid))

QueryGoalCoord == Answers("get_goal_coord", << >>, get_goal_coord(minigrid))

QueryPlayerPos ==
    Answers("get_player_pos", << >>,
            [raised |-> NoError, value |-> get_player_pos(minigrid)])

NextQuery ==
    \/ QueryPosToIndex \/ QueryIndexToPos \/ QueryPosToCoord \/ QueryGridAtPos
    \/ QueryGoal \/ QueryGoalCoord \/ QueryPlayerPos

SpecQuery == Init /\ [][NextQuery]_vars

(* round_to_nearest_angle, a static method, called with an integer angle   *)
(* of up to MaxAngle degrees either way, and then once more with the value *)
(* it returned.                                                            *)
MaxAngle == 450

RoundAngle ==
    /\ result = NoResult
    /\ \E angle \in (-MaxAngle)..MaxAngle :
        result' = [op |-> "round_to_nearest_angle", arg |-> angle,
                   value |-> round_to_nearest_angle(angle), of |-> angle, again |-> FALSE]
    /\ UNCHANGED <<minigrid, raised, hist, pc, s, path, anims, played, shadow, args, script, extra>>

RoundAgain ==
    /\ result.op = "round_to_nearest_angle"
    /\ ~result.again
    /\ result' = [op |-> "round_to_nearest_angle", arg |-> result.value,
                  value |-> round_to_nearest_angle(result.value), of |-> result.arg,
                  again |-> TRUE]
    /\ UNCHANGED <<minigrid, raised, hist, pc, s, path, anims, played, shadow, args, script, extra>>

NextAngle == RoundAngle \/ RoundAgain

SpecAngle == InitPath /\ [][NextAngle]_vars

(* MiniGridMovePlayer animations on a scenes.py MiniGrid constructed with  *)
(* the default arguments, one after the other as Succession plays them,    *)
(* with direct calls of move_player in between.  A renderer calls begin(), *)
(* then interpolate with the alphas of its frames, then finish().          *)
InitMove ==
    \E grid_size \in GridSizes :
        Constructed("scenes", grid_size, 270, <<0, 0>>, <<-1, -1>>, << >>)

Idle ==
    /\ raised = NoError
    /\ pc = "idle"
    /\ mover.stage \in {"none", "finished"}

Running ==
    /\ raised = NoError
    /\ mover.stage \in {"begun", "running"}

Begin ==
    /\ Idle
    /\ \E action \in MinigridAction :
        LET out == begin(minigrid, action)
        IN  /\ minigrid' = out.m
            /\ mover' = out.mover
            /\ raised' = out.raised
    /\ UNCHANGED <<hist, pc, s, path, anims, played, shadow, log, twin>>

Interpolate ==
    /\ Running
    /\ \E k \in Alphas :
        LET out == interpolate_mobject(minigrid, mover, k)
        IN  /\ minigrid' = out.m
            /\ mover' = out.mover
    /\ UNCHANGED <<raised, hist, pc, s, path, anims, played, shadow, log, twin>>

FinishMove ==
    /\ Running
    /\ LET out == finish(minigrid, mover)
       IN  /\ minigrid' = out.m
           /\ mover' = out.mover
    /\ UNCHANGED <<raised, hist, pc, s, path, anims, played, shadow, log, twin>>

DirectMove ==
    /\ Idle
    /\ \E action \in MinigridAction :
        \E out \in move_player(minigrid, action) :
            /\ minigrid' = out.m
            /\ raised' = out.raised
    /\ mover' = NoMover
    /\ UNCHANGED <<hist, pc, s, path, anims, played, shadow, log, twin>>

NextMove == Begin \/ Interpolate \/ FinishMove \/ DirectMove

SpecMove == InitMove /\ [][NextMove]_vars

---------------------------------------------------------------------------
(* Two MiniGrid instances whose timelines are played together: the two     *)
(* animate_actions timelines of one self.play call (icab_demo.py), the two *)
(* Successions of one AnimationGroup (scenes.py).  The first instance and  *)
(* its timeline are in minigrid, anims, played and mover, the second in    *)
(* twin.                                                                   *)

(* build_minigrid places grid_obj_player with no copy made: every instance *)
(* holds the asset of the class itself.                                    *)
player_asset_no_copy(instance) == [asset |-> "player", copy |-> 0]

(* player = grid_obj_player.copy(): the marker of an instance is an object *)
(* of its own.                                                             *)
player_asset_copy(instance) == [asset |-> "player", copy |-> instance]

(* What a change of the marker of one instance does to another instance:   *)
(* nothing, unless both hold the same object.                              *)
Shared(other, changed, objs) ==
    IF objs[1] = objs[2] /\ "player" \in DOMAIN changed.world
    THEN [other EXCEPT !.world.player = changed.world.player]
    ELSE other

MiniGridMovePlayer(action) == [type |-> "MiniGridMovePlayer", action |-> action]

(* animate_move_player, once per action of a Succession                    *)
animate_move_player(actions) ==
    [i \in 1..Len(actions) |-> MiniGridMovePlayer(actions[i])]

(* The timelines an instance can be given for a list of actions, each with *)
(* the instance as the call leaves it.                                     *)
Timelines(m, actions) ==
    IF m.impl = "icab_demo"
    THEN { res \in animate_actions(m, actions) : res.raised = NoError }
    ELSE { [anims |-> animate_move_player(actions), live |-> m] }

TwinPaths ==
    { <<"f", "f", "f">>,
      <<"r", "f", "f", "f">>,
      <<"f", "r", "f">>,
      <<"f", "f", "r", "f">>,
      <<"f", "f", "f", "f", "r">> }

(* The next step of a timeline tl of which n entries have been played on   *)
(* m: the results it can have.  An ApplyMethod or a flash is one step; a   *)
(* MiniGridMovePlayer begins, is interpolated any number of times and      *)
(* finishes, and the entry after it begins only then.                      *)
Advance(m, tl, n, mv) ==
    IF n >= Len(tl) THEN {}
    ELSE LET e == tl[n + 1]
         IN  IF e.type = "ApplyMethod"
             THEN { [minigrid |-> out.m, played |-> n + 1, mover |-> mv,
                     raised |-> out.raised, flash |-> << >>]
                    : out \in move_player(m, e.action) }
             ELSE IF e.type = "CustomFlash"
             THEN { [minigrid |-> m, played |-> n + 1, mover |-> mv,
                     raised |-> NoError, flash |-> << e >>] }
             ELSE IF mv.stage \in {"none", "finished"}
             THEN LET out == begin(m, e.action)
                  IN  { [minigrid |-> out.m, played |-> n, mover |-> out.mover,
                         raised |-> out.raised, flash |-> << >>] }
             ELSE { [minigrid |-> interpolate_mobject(m, mv, k).m, played |-> n,
                     mover |-> interpolate_mobject(m, mv, k).mover,
                     raised |-> NoError, flash |-> << >>] : k \in Alphas }
                  \cup { [minigrid |-> finish(m, mv).m, played |-> n + 1,
                          mover |-> finish(m, mv).mover,
                          raised |-> NoError, flash |-> << >>] }

InitTwo ==
    \E impl \in Impls, hz1 \in {DemoHazardsA, DemoHazardsB},
       hz2 \in {DemoHazardsA, DemoHazardsB}, str1 \in TwinPaths, str2 \in TwinPaths :
        LET first == MiniGridInit(impl, <<5, 5>>, 270, <<0, 0>>, <<-1, -1>>, hz1)
            second == MiniGridInit(impl, <<5, 5>>, 270, <<0, 0>>, <<-1, -1>>, hz2)
        IN  \E tl1 \in Timelines(first.m, minigrid_path_str_to_list(str1).path),
               tl2 \in Timelines(second.m, minigrid_path_str_to_list(str2).path) :
                /\ minigrid = tl1.live
                /\ anims = tl1.anims
                /\ played = 0
                /\ mover = NoMover
                /\ twin = [minigrid |-> tl2.live, anims |-> tl2.anims, played |-> 0,
                           mover |-> NoMover,
                           start |-> << tl1.live, tl2.live >>,
                           player |-> << player_asset_copy(1), player_asset_copy(2) >>,
                           flashed |-> << << >>, << >> >>]
                /\ raised = NoError
                /\ hist = << >>
                /\ pc = "playing"
                /\ s = << >>
                /\ path = << >>
                /\ shadow = tl1.live
                /\ args = NotRecorded
                /\ script = << str1, str2 >>
                /\ result = NoResult

(* The renderer advances the timeline of the first instance ...            *)
StepFirst ==
    /\ raised = NoError
    /\ \E r \in Advance(minigrid, anims, played, mover) :
        /\ minigrid' = r.minigrid
        /\ played' = r.played
        /\ mover' = r.mover
        /\ raised' = r.raised
        /\ twin' = [twin EXCEPT !.minigrid = Shared(@, r.minigrid, twin.player),
                                !.flashed[1] = @ \o r.flash]
    /\ UNCHANGED <<hist, pc, s, path, anims, shadow, log>>

(* ... or that of the second.                                              *)
StepSecond ==
    /\ raised = NoError
    /\ \E r \in Advance(twin.minigrid, twin.anims, twin.played, twin.mover) :
        /\ twin' = [twin EXCEPT !.minigrid = r.minigrid,
                                !.played = r.played,
                                !.mover = r.mover,
                                !.flashed[2] = @ \o r.flash]
        /\ raised' = r.raised
        /\ minigrid' = Shared(minigrid, r.minigrid, twin.player)
    /\ UNCHANGED <<hist, pc, s, path, anims, played, shadow, mover, log>>

NextTwo == StepFirst \/ StepSecond

SpecTwo == InitTwo /\ [][NextTwo]_vars

(* A walk along a column: from the corner the agent is constructed on, one *)
(* turn to face up or down the column, then Forward again and again, up to *)
(* MaxExtra calls more than the grid has rows.                             *)
MaxExtra == 2

ColumnTurn ==
    /\ script = << >>
    /\ \E action \in {LEFT, RIGHT} :
        /\ Invoke(action)
        /\ script' = << action >>
    /\ UNCHANGED <<args, result>>

ColumnForward ==
    /\ script # << >>
    /\ Len(script) - 1 < minigrid.grid_size[1] + MaxExtra
    /\ Invoke(FORWARD)
    /\ script' = Append(script, FORWARD)
    /\ UNCHANGED <<args, result>>

NextColumn == ColumnTurn \/ ColumnForward

SpecColumn == Init /\ [][NextColumn]_vars

---------------------------------------------------------------------------
(* Properties                                                              *)

(* The object exists: its construction did not raise.                      *)
Exists(m) == "player" \in DOMAIN m.world

(* The cell one step ahead in the facing direction, as the specification   *)
(* of Forward gives it.                                                    *)
FacingCell(pos, orientation) ==
    CASE orientation = 0 -> <<pos[1] - 1, pos[2]>>
      [] orientation = 90 -> <<pos[1], pos[2] - 1>>
      [] orientation = 180 -> <<pos[1] + 1, pos[2]>>
      [] orientation = 270 -> <<pos[1], pos[2] + 1>>

LastCall(action) == hist # << >> /\ hist[1].action = action

(* The kind a cell was built with, by its place in the grid.               *)
BuiltKind(m, pos) == m.world.grid[pos[1] * m.grid_size[2] + pos[2] + 1]

(* C1: on every grid, square or not, a Forward from an in-bounds position  *)
(* moves the reported position to the cell ahead when that cell is in the  *)
(* grid, whatever the kinds of the two cells, and otherwise changes        *)
(* neither position nor orientation; it never raises.                      *)
C1_ForwardOneCellOrNoOp ==
    LastCall(FORWARD) /\ InGrid(minigrid.grid_size, PlayerPos(hist[1].before)) =>
        LET before == hist[1].before
            pos == PlayerPos(before)
        IN  /\ raised = NoError
            /\ LookAngles(minigrid) = LookAngles(before)
            /\ \A o \in LookAngles(before) :
                 /\ o \in Cardinals
                 /\ PlayerPos(minigrid) =
                      IF InGrid(minigrid.grid_size, FacingCell(pos, o))
                      THEN FacingCell(pos, o) ELSE pos

(* C1 on square grids, where the code does what the claim says.            *)
C1_SquareGrids ==
    minigrid.grid_size[1] = minigrid.grid_size[2] => C1_ForwardOneCellOrNoOp

(* A Forward that moved from a hazard cell onto the goal cell.             *)
C1_Witness ==
    /\ LastCall(FORWARD)
    /\ minigrid.grid_size[1] = minigrid.grid_size[2]
    /\ PlayerPos(minigrid) # PlayerPos(hist[1].before)
    /\ BuiltKind(minigrid, PlayerPos(hist[1].before)) = "grid-lava"
    /\ BuiltKind(minigrid, PlayerPos(minigrid)) = "grid-goal"

(* C2: Left sets the orientation to (orientation + 90) mod 360, Right to   *)
(* (orientation - 90) mod 360; neither changes the position.               *)
C2_TurnsRotateInPlace ==
    /\ LastCall(LEFT) =>
        /\ LookAngles(minigrid) = { (o + 90) % 360 : o \in LookAngles(hist[1].before) }
        /\ PlayerPos(minigrid) = PlayerPos(hist[1].before)
    /\ LastCall(RIGHT) =>
        /\ LookAngles(minigrid) = { (o - 90) % 360 : o \in LookAngles(hist[1].before) }
        /\ PlayerPos(minigrid) = PlayerPos(hist[1].before)

(* A Right turn from orientation 0, which wraps around to 270.             *)
C2_Witness ==
    /\ LastCall(RIGHT)
    /\ LookAngles(hist[1].before) = {0}
    /\ LookAngles(minigrid) = {270}

(* C3: after construction with an in-range position and any sequence of    *)
(* Left, Right and Forward, the position is inside the grid and the        *)
(* orientation is one of 0, 90, 180, 270.                                  *)
C3_PoseInRange ==
    Exists(minigrid) =>
        /\ InGrid(minigrid.grid_size, PlayerPos(minigrid))
        /\ LookAngles(minigrid) \subseteq Cardinals

(* C7: every cell is built with exactly one kind: Goal if it is the goal   *)
(* position, otherwise Hazard if it is in the hazard list, otherwise Empty.*)
C7_BuildClassifiesCells ==
    /\ Len(minigrid.world.grid) = minigrid.grid_size[1] * minigrid.grid_size[2]
    /\ \A pos \in Positions(minigrid.grid_size) :
        BuiltKind(minigrid, pos) =
            IF pos = minigrid.goal_pos THEN "grid-goal"
            ELSE IF InList(pos, minigrid.hazards_grid_pos) THEN "grid-lava"
            ELSE "grid-empty"

(* A grid whose goal is also listed as a hazard, next to an empty cell.    *)
C7_Witness ==
    /\ Exists(minigrid)
    /\ InList(minigrid.goal_pos, minigrid.hazards_grid_pos)
    /\ BuiltKind(minigrid, minigrid.goal_pos) = "grid-goal"
    /\ \E pos \in Positions(minigrid.grid_size) : BuiltKind(minigrid, pos) = "grid-empty"

(* C10: Left then Right, and Right then Left, return exactly the state     *)
(* they started from.                                                      *)
C10_TurnInverse ==
    Len(hist) = 2 /\ (\/ hist[2].action = LEFT /\ hist[1].action = RIGHT
                      \/ hist[2].action = RIGHT /\ hist[1].action = LEFT) =>
        /\ minigrid = hist[2].before
        /\ PlayerPos(minigrid) = PlayerPos(hist[2].before)
        /\ LookAngles(minigrid) = LookAngles(hist[2].before)
        /\ raised = NoError

(* Left then Right from orientation 270, through 0 and back.               *)
C10_Witness ==
    /\ Len(hist) = 2
    /\ hist[2].action = LEFT
    /\ hist[1].action = RIGHT
    /\ LookAngles(hist[2].before) = {270}
    /\ LookAngles(hist[1].before) = {0}
    /\ LookAngles(minigrid) = {270}

(* The timeline has been played to its end.                                *)
Played == pc = "playing" /\ played = Len(anims) /\ raised = NoError

IsMove(i) == i \in 1..Len(anims) /\ anims[i].type = "ApplyMethod"

IsCue(i, event) ==
    i \in 1..Len(anims) /\ anims[i].type = "CustomFlash" /\ anims[i].event = event

(* The kind of the cell the live marker stands on.                         *)
KindUnderPlayer(m) == m.world.grid[coord_to_index(m, get_player_coord(m)) + 1]

(* C4: the shadow pass of animate_actions and the live replay of the same  *)
(* actions from the same start end in the same position and orientation.   *)
C4_ShadowEqualsLive ==
    Played =>
        /\ PlayerPos(minigrid) = PlayerPos(shadow)
        /\ LookAngles(minigrid) = LookAngles(shadow)

(* A played timeline that turned the agent and moved it off its start cell *)
(* at the bottom-right.                                                    *)
C4_Witness ==
    /\ Played
    /\ \E i, j \in 1..Len(anims) :
        /\ IsMove(i) /\ anims[i].action = LEFT
        /\ IsMove(j) /\ anims[j].action = FORWARD
    /\ minigrid.world.player.angle # 270
    /\ minigrid.world.player.center # CellCenter(minigrid.grid_size, Len(minigrid.world.grid) - 1)
    /\ minigrid.world.player.center # CellCenter(minigrid.grid_size, 0)
    /\ minigrid.world.player = shadow.world.player

(* C5: no step of a timeline carries both a hazard cue and a goal cue: a   *)
(* movement step is followed by at most one cue, also when the goal is     *)
(* listed among the hazards.                                               *)
C5_AtMostOneCuePerStep ==
    /\ anims # << >> => IsMove(1)
    /\ \A i \in 1..Len(anims) :
        ~IsMove(i) => IsMove(i - 1) /\ (i < Len(anims) => IsMove(i + 1))

(* A timeline with a cue on the goal cell of a grid whose goal is also     *)
(* listed as a hazard.                                                     *)
C5_Witness ==
    /\ pc = "playing"
    /\ InList(minigrid.goal_pos, minigrid.hazards_grid_pos)
    /\ \E i \in 1..Len(anims) :
        /\ anims[i].type = "CustomFlash"
        /\ anims[i].pos = minigrid.goal_pos

(* C6: the cue of a step agrees with the kind the cell under the agent     *)
(* after the step was built with: hazard cue iff Hazard, goal cue iff      *)
(* Goal, no cue iff Empty.                                                 *)
C6_CueMatchesBuiltKind ==
    pc = "playing" /\ raised = NoError /\ played >= 1 /\ IsMove(played) =>
        LET kind == KindUnderPlayer(minigrid)
        IN  /\ IsCue(played + 1, "hazard") <=> kind = "grid-lava"
            /\ IsCue(played + 1, "goal") <=> kind = "grid-goal"
            /\ (played = Len(anims) \/ IsMove(played + 1)) <=> kind = "grid-empty"

(* C6 where it holds: square grids whose goal is not listed as a hazard.   *)
C6_SquareGoalNotHazard ==
    /\ minigrid.grid_size[1] = minigrid.grid_size[2]
    /\ ~InList(minigrid.goal_pos, minigrid.hazards_grid_pos)
    => C6_CueMatchesBuiltKind

(* C8: a path string with a character outside l, r, f (ignoring case) is   *)
(* rejected as a whole: the call raises, returns no list, builds no        *)
(* timeline and changes nothing of the MiniGrid.                           *)
C8_InvalidPathRejected ==
    [][ (\E i \in 1..Len(s') : LowerChar(s'[i]) \notin {"l", "r", "f"}) =>
            /\ raised' = "AssertionError"
            /\ path' = << >>
            /\ minigrid' = minigrid
            /\ anims' = anims
            /\ played' = played
            /\ pc' = pc ]_vars

(* A rejected string that starts with valid characters, given after an     *)
(* earlier timeline has turned the agent.                                  *)
C8_Witness ==
    /\ raised = "AssertionError"
    /\ Len(s) = 3
    /\ s[1] = "f" /\ s[2] = "L" /\ s[3] = "x"
    /\ path = << >>
    /\ minigrid.world.player.angle # 270

(* C9: a string over l, r, f, L, R, F is accepted and parsed to a list of  *)
(* the same length, character by character ignoring case, so it parses as  *)
(* its lower-cased form does.                                              *)
C9_PathParsedElementwise ==
    /\ raised = "AssertionError" => \E i \in 1..Len(s) : s[i] \notin {"l", "r", "f", "L", "R", "F"}
    /\ pc = "parsed" =>
        /\ Len(path) = Len(s)
        /\ \A i \in 1..Len(s) :
            path[i] = CASE s[i] \in {"l", "L"} -> LEFT
                        [] s[i] \in {"r", "R"} -> RIGHT
                        [] s[i] \in {"f", "F"} -> FORWARD
        /\ path = minigrid_path_str_to_list(lower(s)).path

(* A parsed string that mixes upper and lower case.                        *)
C9_Witness ==
    /\ pc = "parsed"
    /\ s = << "L", "f", "R" >>
    /\ path = << LEFT, FORWARD, RIGHT >>

(* C11: from a corner, facing along the column, every Forward completes    *)
(* and, once as many Forwards as the grid has rows have been made, a       *)
(* further Forward leaves the object as it was: the state after n >= rows  *)
(* Forwards is the state after rows Forwards.                              *)
C11_ColumnWalkStops ==
    (Len(script) >= 2) =>
        /\ raised = NoError
        /\ (Len(script) - 1 > minigrid.grid_size[1]) => (minigrid = hist[1].before)

(* The same on the grids with as many rows as columns.                     *)
C11_SquareGrids ==
    (minigrid.grid_size[1] = minigrid.grid_size[2]) => C11_ColumnWalkStops

C11_Witness ==
    /\ Len(script) - 1 > minigrid.grid_size[1]
    /\ minigrid.grid_size[1] = 2
    /\ minigrid = hist[1].before
    /\ PlayerPos(minigrid) = <<1, 0>>
    /\ LookAngles(minigrid) = {180}

(* Environment A of the demo, and the path strings of its worked example.  *)
DemoA ==
    /\ minigrid.grid_size = <<5, 5>>
    /\ minigrid.hazards_grid_pos = DemoHazardsA
    /\ minigrid.goal_pos = <<4, 4>>

fff == <<"f", "f", "f">>

rfff == <<"r", "f", "f", "f">>

NoCue == \A i \in 1..Len(anims) : anims[i].type # "CustomFlash"

(* C12 as stated: on environment A, from (0,0) facing 270, the path "fff"  *)
(* moves the agent down column 0 to (3,0) and its timeline holds no hazard *)
(* or goal cue.                                                            *)
C12_FffDownColumn ==
    (DemoA /\ script = << fff >> /\ Played) =>
        /\ PlayerPos(minigrid) = <<3, 0>>
        /\ NoCue

(* C12, amended: on environment A, from (0,0) facing 270, the path "fff"   *)
(* moves the agent along row 0 to (0,3), still facing 270, and its         *)
(* timeline holds no hazard or goal cue.                                   *)
C12_FffAlongRow ==
    (DemoA /\ script = << fff >> /\ Played) =>
        /\ PlayerPos(minigrid) = <<0, 3>>
        /\ LookAngles(minigrid) = {270}
        /\ NoCue

C12_Witness ==
    /\ DemoA
    /\ script = << fff >>
    /\ Played
    /\ Len(anims) = 3
    /\ PlayerPos(minigrid) = <<0, 3>>

(* The timeline of "rfff", made right after "fff", is being played and its *)
(* next entry, a move, finishes in this step.                              *)
RfffMove(action) ==
    /\ DemoA
    /\ script = << fff, rfff >>
    /\ pc = "playing"
    /\ played' = played + 1
    /\ IsMove(played + 1)
    /\ anims[played + 1].action = action

FirstForward(i) == \A j \in 1..(i - 1) : ~(IsMove(j) /\ anims[j].action = FORWARD)

(* C13 as stated: "rfff" right after "fff" turns the orientation to 0, and *)
(* of its three Forwards only the first changes the position.              *)
C13_OnlyFirstForwardMoves ==
    [][ /\ RfffMove(RIGHT) => (LookAngles(minigrid') = {0})
        /\ RfffMove(FORWARD) =>
              ((PlayerPos(minigrid') # PlayerPos(minigrid)) <=> FirstForward(played + 1))
      ]_vars

(* C13, amended: "rfff" right after "fff" turns the orientation to 180,    *)
(* and each of its three Forwards changes the position, by one row         *)
(* downwards.                                                              *)
C13_TurnsDownAndAllForwardsMove ==
    [][ /\ RfffMove(RIGHT) => (LookAngles(minigrid') = {180})
        /\ RfffMove(FORWARD) =>
              (PlayerPos(minigrid') =
                 <<PlayerPos(minigrid)[1] + 1, PlayerPos(minigrid)[2]>>)
      ]_vars

C13_Witness ==
    /\ DemoA
    /\ script = << fff, rfff >>
    /\ Played
    /\ Len(SelectSeq(anims, LAMBDA a : a.type = "ApplyMethod")) = 4
    /\ PlayerPos(minigrid) = <<3, 3>>
    /\ LookAngles(minigrid) = {180}

(* What Python indexing makes of an index i on an axis of the given size.  *)
Resolved(i, size) == IF i >= 0 THEN i ELSE i + size

ResolvedPos(pos, grid_size) ==
    << Resolved(pos[1], grid_size[1]), Resolved(pos[2], grid_size[2]) >>

Square(m) == m.grid_size[1] = m.grid_size[2]

C18_LookAngleArgumentIsOrientation ==
    (args # NotRecorded /\ minigrid.impl = "icab_demo" /\ Exists(minigrid)) =>
        /\ (hist = << >>) => (LookAngles(minigrid) = {args.player_look_angle})
        /\ (Len(hist) = 1 /\ raised = NoError) =>
              LET from == PlayerPos(hist[1].before)
                  to == FacingCell(from, args.player_look_angle)
              IN  PlayerPos(minigrid) = IF InGrid(minigrid.grid_size, to) THEN to ELSE from

(* C15: on every grid, square or not, pos_to_index, pos_to_coord,          *)
(* get_grid_at_pos, get_goal, get_goal_coord and get_player_pos complete   *)
(* without raising, for every position of the grid.                        *)
C15_QueriesDoNotRaise ==
    (result.op \in {"pos_to_index", "pos_to_coord", "get_grid_at_pos",
                    "get_goal", "get_goal_coord", "get_player_pos"}) =>
        (raised = NoError)

(* The same on the grids with as many rows as columns.                     *)
C15_SquareGrids == Square(minigrid) => C15_QueriesDoNotRaise

(* C16: on a grid with as many rows as columns, index_to_pos undoes        *)
(* pos_to_index, and pos_to_index is one-to-one from the cells of the grid *)
(* onto 0 .. rows*cols-1.                                                  *)
C16_SquareRoundTrip ==
    (result.op = "pos_to_index" /\ Square(minigrid)) =>
        LET cells == Positions(minigrid.grid_size)
            indices == 0..(minigrid.grid_size[1] * minigrid.grid_size[2] - 1)
        IN  /\ index_to_pos(minigrid, result.value) = result.arg
            /\ result.value \in indices
            /\ \A q \in cells : (pos_to_index(minigrid, q) = result.value) => (q = result.arg)
            /\ \A i \in indices : \E q \in cells : pos_to_index(minigrid, q) = i

C16_Witness ==
    /\ result.op = "pos_to_index"
    /\ minigrid.grid_size = <<2, 2>>
    /\ result.arg = <<1, 0>>
    /\ result.value = 2

(* C17: on every grid pos_to_index(pos) is row * cols + col and            *)
(* index_to_pos(index) is (index div cols, index mod cols).                *)
C17_RowMajorIndex ==
    /\ (result.op = "pos_to_index") =>
          (result.value = result.arg[1] * minigrid.grid_size[2] + result.arg[2])
    /\ (result.op = "index_to_pos") =>
          (result.value = << result.arg \div minigrid.grid_size[2],
                             result.arg % minigrid.grid_size[2] >>)

(* The same on the grids with as many rows as columns.                     *)
C17_SquareGrids == Square(minigrid) => C17_RowMajorIndex

Rounded == result.op = "round_to_nearest_angle"

(* C19: round_to_nearest_angle applied to a value it returned gives that   *)
(* value again, for every integer angle, and it takes -90 to 270.          *)
C19_RoundIdempotent ==
    Rounded =>
        /\ result.again => (result.value = result.arg)
        /\ (result.arg = -90) => (result.value = 270)

C19_Witness ==
    /\ Rounded
    /\ result.again
    /\ result.of = -90
    /\ result.arg = 270
    /\ result.value = 270

(* C20: for every integer angle, negative ones included, the value of      *)
(* round_to_nearest_angle is one of 0, 90, 180, 270 and is at most 45      *)
(* degrees away from the angle, counted around the circle; 179 gives 180,  *)
(* 221 gives 180, 14 gives 0, 100 gives 90 and 360 gives 0.                *)
C20_RoundToNearestCardinal ==
    Rounded =>
        LET d == (result.value - result.arg) % 360
        IN  /\ result.value \in Cardinals
            /\ d <= 45 \/ d >= 315
            /\ (result.arg = 179) => (result.value = 180)
            /\ (result.arg = 221) => (result.value = 180)
            /\ (result.arg = 14) => (result.value = 0)
            /\ (result.arg = 100) => (result.value = 90)
            /\ (result.arg = 360) => (result.value = 0)

C20_Witness ==
    /\ Rounded
    /\ ~result.again
    /\ result.arg = -135
    /\ result.value = 180

(* The discrete pose of a scenes.py MiniGrid.                              *)
Pose(m) == << m.player_grid_pos, m.player_look_angle >>

(* The poses a direct call of move_player leaves, with what it raises.     *)
DirectOutcomes(m, action) ==
    { << Pose(out.m), out.raised >> : out \in move_player(m, action) }

(* C21: while a MiniGridMovePlayer animation runs, from begin() through    *)
(* every interpolate call, the position and the look angle of the MiniGrid *)
(* are those begin() found; after finish() they are the end values.        *)
C21_PoseCommittedInFinish ==
    /\ (mover.stage \in {"begun", "running", "raised"}) =>
          (Pose(minigrid) = Pose(mover.before))
    /\ (mover.stage = "finished") =>
          (<< Pose(minigrid), NoError >> \in DirectOutcomes(mover.before, mover.action))

(* The orientation alone is committed in finish().                         *)
C21_LookAngleCommittedInFinish ==
    (mover.stage \in {"begun", "running", "raised"}) =>
        (minigrid.player_look_angle = mover.before.player_look_angle)

Turning == mover.stage # "none" /\ mover.stage # "raised" /\ mover.action \in {LEFT, RIGHT}

(* C22: in a Left or Right animation, after every interpolate call, with   *)
(* the alphas in any order, the rotation given to the marker since begin() *)
(* is alpha * turn_amount, and after finish() it is +90 degrees for Left   *)
(* and -90 degrees for Right; the marker has turned by that much.          *)
C22_RotationFollowsAlpha ==
    Turning =>
        /\ (mover.stage = "begun") => (mover.applied = 0)
        /\ (mover.stage = "running") => (mover.applied = Part(mover.alpha, mover.turn_amount))
        /\ (mover.stage = "finished") =>
              (mover.applied = IF mover.action = LEFT THEN 90 ELSE -90)
        /\ minigrid.world.player.angle =
              (mover.before.world.player.angle + mover.applied) % 360

C22_Witness ==
    /\ Turning
    /\ mover.stage = "finished"
    /\ mover.action = RIGHT
    /\ mover.alpha = 1
    /\ mover.applied = -90
    /\ minigrid.world.player.angle = 180

(* A Forward animation whose cell ahead is outside the grid.               *)
BlockedForward ==
    /\ mover.stage # "none"
    /\ mover.action = FORWARD
    /\ ~InGrid(minigrid.grid_size,
               FacingCell(mover.before.player_grid_pos, mover.before.player_look_angle))

(* C23: in a Forward animation blocked by the boundary begin() completes   *)
(* with the end coordinate equal to the start coordinate, the marker is at *)
(* the start coordinate after begin(), after every interpolate call and    *)
(* after finish(), and the position and the look angle are unchanged.      *)
C23_BlockedForwardStays ==
    BlockedForward =>
        /\ mover.stage # "raised"
        /\ mover.player_end_center = mover.player_start_center
        /\ minigrid.world.player.center = mover.player_start_center
        /\ Pose(minigrid) = Pose(mover.before)

(* The same on the grids with as many rows as columns.                     *)
C23_SquareGrids == Square(minigrid) => C23_BlockedForwardStays

(* C27: an animation run to its end leaves the position and the look      *)
(* angle that a direct call of move_player with the same action leaves,    *)
(* from every state that animations and direct calls lead to, and raises   *)
(* nothing that the direct call does not raise.                            *)
C27_AnimationMatchesDirectCall ==
    (mover.stage \in {"finished", "raised"}) =>
        (<< Pose(minigrid), raised >> \in DirectOutcomes(mover.before, mover.action))

(* The same on the grids with as many rows as columns.                     *)
C27_SquareGrids == Square(minigrid) => C27_AnimationMatchesDirectCall

(* The actions of the moves of a timeline, in order.                        *)
MovesOf(timeline) ==
    LET moves == SelectSeq(timeline, LAMBDA a : a.type = "ApplyMethod")
    IN  [i \in 1..Len(moves) |-> moves[i].action]

CuesOf(timeline) == SelectSeq(timeline, LAMBDA a : a.type = "CustomFlash")

(* C25: the timeline returned by animate_actions holds one move per action *)
(* given, in the order given; a cue stands right after the move of its     *)
(* step and before the next move, at most one per step, and is at the      *)
(* position the agent has after that move; the length of the timeline is   *)
(* the number of actions plus the number of steps with a cue.              *)
C25_TimelineFollowsActions ==
    (pc = "playing" /\ script # << >>) =>
        /\ MovesOf(anims) = script[1]
        /\ anims # << >> => IsMove(1)
        /\ \A i \in 1..Len(anims) : ~IsMove(i) => IsMove(i - 1)
        /\ Len(anims) = Len(script[1])
                          + Cardinality({ i \in 1..Len(anims) : IsMove(i) /\ ~IsMove(i + 1)
                                                                 /\ i < Len(anims) })
        /\ (raised = NoError /\ played < Len(anims) /\ ~IsMove(played + 1)) =>
              (anims[played + 1].pos = PlayerPos(minigrid))

C25_Witness ==
    /\ pc = "playing"
    /\ script = << << FORWARD, RIGHT, FORWARD >> >>
    /\ minigrid.grid_size = <<2, 2>>
    /\ Len(anims) = 6
    /\ IsCue(2, "hazard")
    /\ IsCue(4, "hazard")
    /\ IsCue(6, "goal")
    /\ played = 3

(* C26: a call of animate_actions leaves the object it is made on as it    *)
(* was, whether it returns a timeline or raises, while its shadow has made *)
(* every move of the timeline by then; the object changes only in a step   *)
(* that plays a move of the timeline.                                      *)
C26_BuildLeavesLiveUnchanged ==
    [][ /\ (pc = "idle") => (minigrid' = minigrid)
        /\ (pc = "idle" /\ pc' = "playing") =>
              /\ MovesOf(anims') = script'[1]
              /\ played' = 0
        /\ (minigrid' # minigrid) =>
              (pc = "playing" /\ played' = played + 1 /\ IsMove(played + 1))
      ]_vars

C26_Witness ==
    /\ pc = "playing"
    /\ played = 0
    /\ Len(anims) >= 2
    /\ PlayerPos(shadow) # PlayerPos(minigrid)
    /\ LookAngles(shadow) # LookAngles(minigrid)
    /\ minigrid.world.player = [center |-> <<0, 0>>, angle |-> 270]

GoalCells(m) ==
    { pos \in Positions(m.grid_size) : BuiltKind(m, pos) = "grid-goal" }

(* C30: whatever goal indices are configured, down to below minus the size *)
(* of the axis, get_goal_pos returns the position of the one cell that     *)
(* build_minigrid built as Goal.                                           *)
C30_GoalPosIsBuiltGoal ==
    (args # NotRecorded /\ minigrid.impl = "icab_demo") =>
        (GoalCells(minigrid) = { get_goal_pos(minigrid) })

(* The same for goal indices from minus the size of the axis up.           *)
C30_IndicesFromMinusSize ==
    (args # NotRecorded /\ minigrid.impl = "icab_demo"
        /\ args.goal_grid_pos \in SignedPositions(args.grid_size)) =>
        (GoalCells(minigrid) = { get_goal_pos(minigrid) })

(* The results of playing a timeline alone, from its first entry to its    *)
(* last: the instance and the cues flashed.                                *)
RECURSIVE PlayAlone(_, _, _)
PlayAlone(m, tl, flashed) ==
    IF tl = << >> THEN { [minigrid |-> m, flashed |-> flashed] }
    ELSE LET e == Head(tl)
         IN  IF e.type = "ApplyMethod"
             THEN UNION { IF out.raised # NoError THEN {}
                          ELSE PlayAlone(out.m, Tail(tl), flashed)
                          : out \in move_player(m, e.action) }
             ELSE IF e.type = "CustomFlash"
             THEN PlayAlone(m, Tail(tl), Append(flashed, e))
             ELSE LET b == begin(m, e.action)
                  IN  IF b.raised # NoError THEN {}
                      ELSE PlayAlone(finish(b.m, b.mover).m, Tail(tl), flashed)

PlayedOut ==
    /\ raised = NoError
    /\ played = Len(anims)
    /\ twin.played = Len(twin.anims)

(* C24: with the timelines of two instances played together, a step of one *)
(* leaves the other instance as it was, agent, hazards and goal, and its   *)
(* own instance with its hazards and goal; no step raises; and once both   *)
(* timelines are played out each instance is as after playing its timeline *)
(* alone, with the same cues flashed.                                      *)
C24_TogetherAsAlone ==
    [][ /\ raised' = NoError
        /\ (played' # played \/ mover' # mover) =>
              /\ twin'.minigrid = twin.minigrid
              /\ twin'.flashed[2] = twin.flashed[2]
              /\ minigrid'.goal_pos = minigrid.goal_pos
              /\ minigrid'.hazards_grid_pos = minigrid.hazards_grid_pos
              /\ minigrid'.world.grid = minigrid.world.grid
        /\ (twin'.played # twin.played \/ twin'.mover # twin.mover) =>
              /\ minigrid' = minigrid
              /\ twin'.flashed[1] = twin.flashed[1]
              /\ twin'.minigrid.goal_pos = twin.minigrid.goal_pos
              /\ twin'.minigrid.hazards_grid_pos = twin.minigrid.hazards_grid_pos
              /\ twin'.minigrid.world.grid = twin.minigrid.world.grid
        /\ PlayedOut' =>
              /\ [minigrid |-> minigrid', flashed |-> twin'.flashed[1]]
                    \in PlayAlone(twin.start[1], anims, << >>)
              /\ [minigrid |-> twin'.minigrid, flashed |-> twin'.flashed[2]]
                    \in PlayAlone(twin.start[2], twin.anims, << >>)
      ]_vars

C24_Witness ==
    /\ twin # NoTwin
    /\ PlayedOut
    /\ minigrid.impl = "icab_demo"
    /\ script = << <<"f", "r", "f">>, <<"r", "f", "f", "f">> >>
    /\ minigrid.hazards_grid_pos = DemoHazardsA
    /\ twin.minigrid.hazards_grid_pos = DemoHazardsB
    /\ PlayerPos(minigrid) = <<1, 1>>
    /\ Len(twin.flashed[1]) = 1
    /\ PlayerPos(twin.minigrid) = <<3, 0>>
    /\ twin.flashed[2] = << >>

(* The number of moves among the first i entries of the timeline.          *)
MovesUpTo(i) == Cardinality({ j \in 1..i : IsMove(j) })

(* An entry of the second of two timelines played one after the other: it  *)
(* comes after the moves of the first and the cue of its last move.        *)
InSecond(i) ==
    /\ Len(script) = 2
    /\ i \in 1..Len(anims)
    /\ MovesUpTo(i) > Len(script[1])

(* The cue at entry i is for the cell the live agent stands on.            *)
CueFollowsLive(i) ==
    /\ anims[i].pos = PlayerPos(minigrid)
    /\ IsCue(i, "hazard") => InList(PlayerPos(minigrid), get_hazards_pos(minigrid))
    /\ IsCue(i, "goal") => (PlayerPos(minigrid) = get_goal_pos(minigrid))

(* C28: of two timelines built for the same MiniGrid before either is      *)
(* played and then played one after the other, every cue of the second is  *)
(* played with the live agent on the hazard or goal cell of the cue.       *)
C28_SecondTimelineCuesFollowLive ==
    (pc = "playing" /\ raised = NoError /\ played < Len(anims)
        /\ InSecond(played + 1) /\ ~IsMove(played + 1)) =>
        CueFollowsLive(played + 1)

(* The cues of the first of the two timelines are played with the live     *)
(* agent on their cell.                                                    *)
C28_FirstTimelineCuesFollowLive ==
    (pc = "playing" /\ raised = NoError /\ played < Len(anims)
        /\ Len(script) = 2 /\ ~InSecond(played + 1) /\ ~IsMove(played + 1)) =>
        CueFollowsLive(played + 1)

====
